---- MODULE Spec2Model ----
(***************************************************************************)
(* Model of server.js: an Express application with session login, a       *)
(* members page and, in the first route set, an admin page that promotes  *)
(* and demotes users.  The file holds two route sets (lines 1-198 and     *)
(* lines 200-349); `variant` says which one is running.                   *)
(*                                                                         *)
(* A handler runs without interruption up to its first store operation    *)
(* that another request can observe, and again from one such operation to *)
(* the next; each such stretch is one action.  A request that still has a *)
(* store operation to perform sits in `pending`.                          *)
(***************************************************************************)
EXTENDS Integers, Sequences, FiniteSets, TLC

VARIABLES variant, users, sessions, pending, resp, registered, loggedOut, age

vars == <<variant, users, sessions, pending, resp, registered, loggedOut, age>>

(***************************************************************************)
(* Bounds of the model.                                                    *)
(***************************************************************************)
NumSessions == 2      \* browser sessions (cookies) talking to the server
MaxUsers == 2         \* user records the collection may hold
MaxInFlight == 1      \* requests suspended at an await at the same time
MaxRace == 2          \* requests suspended at once where requests race

Sessions == 1..NumSessions

(***************************************************************************)
(* Values.                                                                 *)
(***************************************************************************)
Undefined == "undefined"          \* a JavaScript value that is not there
SaltRounds == 10                  \* bcrypt.hash(password, 10)
NoSuchId == MaxUsers + 1          \* a well-formed id no record carries

\* req.session.user: absent, or the snapshot { name, user_type }
NoUser == [set |-> FALSE, name |-> Undefined, user_type |-> Undefined]

Identity(n, t) == [set |-> TRUE, name |-> n, user_type |-> t]

\* the inputs the requests are drawn from
FormA == [name |-> "A", email |-> "a@x.com", password |-> "p"]

FormB == [name |-> "B", email |-> "a@x.com", password |-> "q"]

SignupBodies ==
    {FormA, FormB,
     [FormA EXCEPT !.name = Undefined],
     [FormA EXCEPT !.email = "not-an-email"], [FormB EXCEPT !.password = ""]}

LoginBodies ==
    {[email |-> "a@x.com", password |-> "p"],
     [email |-> "a@x.com", password |-> "q"],
     [email |-> "b@x.com", password |-> "p"],
     [email |-> "not-an-email", password |-> "p"],
     [email |-> "", password |-> "p"],
     [email |-> "a@x.com", password |-> Undefined]}

\* strings Joi's email() rule accepts, among the inputs used here
WellFormedEmails == {"a@x.com", "b@x.com"}

(***************************************************************************)
(* bcrypt                                                                  *)
(***************************************************************************)
\* bcrypt.hash(plain, 10): a digest, not the plain text
hash(plain) == [alg |-> "bcrypt", cost |-> SaltRounds, of |-> plain]

\* a comparison that accepts every password
compareAny(plain, digest) == TRUE

\* bcrypt.compare(plain, digest)
compare(plain, digest) == digest.alg = "bcrypt" /\ digest.of = plain

(***************************************************************************)
(* Joi validation: the first failing key, in schema order, gives the       *)
(* message; "" means no error.                                            *)
(***************************************************************************)
\* FieldError without the email() rule
FieldErrorAnyEmail(key, label, v, isEmail) ==
    IF v = Undefined THEN "\"" \o key \o "\" is required"
    ELSE IF v = "" THEN label \o " is required"
    ELSE ""

FieldError(key, label, v, isEmail) ==
    IF v = Undefined THEN "\"" \o key \o "\" is required"
    ELSE IF v = "" THEN label \o " is required"
    ELSE IF isEmail /\ v \notin WellFormedEmails
         THEN "\"" \o key \o "\" must be a valid email"
    ELSE ""

FirstError(errs) ==
    IF \E i \in DOMAIN errs : errs[i] # ""
    THEN errs[CHOOSE i \in DOMAIN errs :
                 errs[i] # "" /\ \A j \in 1..(i - 1) : errs[j] = ""]
    ELSE ""

SignupValidate(body) ==
    FirstError(<<FieldError("name", "Name", body.name, FALSE),
                 FieldError("email", "Email", body.email, TRUE),
                 FieldError("password", "Password", body.password, FALSE)>>)

LoginValidate(body) ==
    FirstError(<<FieldError("email", "Email", body.email, TRUE),
                 FieldError("password", "Password", body.password, FALSE)>>)

(***************************************************************************)
(* Responses.  resp is the last response sent: to which session, by which  *)
(* route, for which request parameter, and what it carries.               *)
(***************************************************************************)
NoData == <<>>

Response(s, route, email, id, status, type, body, data) ==
    [sid |-> s, route |-> route, email |-> email, id |-> id,
     status |-> status, type |-> type, body |-> body, data |-> data]

NoResp == Response(0, "", "", 0, 0, "", "", NoData)

\* res.render(view, data), status 200 unless set
Render(s, route, status, view, data) ==
    Response(s, route, "", 0, status, "render", view, data)

\* res.redirect(location)
Redirect(s, route, email, id, location) ==
    Response(s, route, email, id, 302, "redirect", location, NoData)

\* res.send(text), status 200 unless set
Send(s, route, email, status, text) ==
    Response(s, route, email, 0, status, "send", text, NoData)

SignupRetry == " <br /> <br /> <a href=\"/signup\">Try again</a>"

LoginRetry == " <a href=\"/login\">Try again</a>"

InvalidCombination ==
    "Invalid email/password combination. <br /> <a href='/login'>Try again</a>"

ForbiddenText == "403 Forbidden: Admins only."

Images == <<"react.png", "nextjs.png", "ejs.png">>

(***************************************************************************)
(* Middleware and the decisions of the handlers.                           *)
(***************************************************************************)
\* requireLogin sending an anonymous request to the page it asked for
LoginEntryMembers == "/members"

\* where requireLogin sends an anonymous request
LoginEntry == IF variant = 1 THEN "/login" ELSE "/"

\* requireLogin without its test
requireLoginAlways(user) == TRUE

\* requireLogin: TRUE when next() is called
requireLogin(user) == user.set

\* requireAdmin asking the user collection for the role instead of the session
requireAdminLive(user) ==
    /\ user.set
    /\ \E i \in DOMAIN users :
          users[i].name = user.name /\ users[i].user_type = "admin"

\* requireAdmin testing only that somebody is logged in
requireAdminLoginOnly(user) == user.set

\* requireAdmin: TRUE when next() is called
requireAdmin(user) == user.set /\ user.user_type = "admin"

\* the role test of the admin page refusing only a session without a role
adminPageForbiddenNoRole(user) == user.user_type = Undefined

\* the role test of the admin page: TRUE when the 403 view is rendered
adminPageForbidden(user) == user.user_type # "admin"

\* the routes only the first route set defines
AdminRoutes == variant = 1

\* the record signup inserts
\* a signup that stores the role admin
signupUserAdmin(body) ==
    [name |-> body.name, email |-> body.email, password |-> hash(body.password),
     user_type |-> "admin"]

signupUser(body) ==
    [name |-> body.name, email |-> body.email, password |-> hash(body.password),
     user_type |-> IF variant = 1 THEN "user" ELSE Undefined]

\* the snapshot signup stores in the session
signupSession(newUser) ==
    Identity(newUser.name, IF variant = 1 THEN newUser.user_type ELSE Undefined)

\* userCollection.findOne({ email }): the first record in natural order,
\* 0 when there is none
findOne(email) ==
    IF \E i \in DOMAIN users : users[i].email = email
    THEN CHOOSE i \in DOMAIN users :
            users[i].email = email /\ \A j \in 1..(i - 1) : users[j].email # email
    ELSE 0

\* the test of the login handler without the password comparison
loginRefusedNoCompare(found, password) == found = 0

\* the test of the login handler: TRUE when the login is refused
loginRefused(found, password) ==
    found = 0 \/ ~compare(password, users[found].password)

\* a refusal that tells an unknown email from a wrong password
loginFailureTelling(found) ==
    IF found = 0 THEN "No account with that email." ELSE InvalidCombination

\* what a refused login sends, whichever test refused it
loginFailure(found) == InvalidCombination

\* a login that stores the email where the name belongs
loginSessionEmail(user) ==
    Identity(user.email, IF variant = 1 THEN user.user_type ELSE Undefined)

\* the snapshot login stores in the session
loginSession(user) ==
    Identity(user.name, IF variant = 1 THEN user.user_type ELSE Undefined)

\* the promote handler with the role of the demote handler
PromoteRoleCopied == "user"

PromoteRole == "admin"

\* the demote handler with the role of the promote handler
DemoteRoleCopied == "admin"

DemoteRole == "user"

\* an update that stores the update document in place of the record
updateOneReplacing(id, role) ==
    IF id \in DOMAIN users
    THEN [users EXCEPT ![id] = [name |-> Undefined, email |-> Undefined,
                                password |-> hash(Undefined), user_type |-> role]]
    ELSE users

\* userCollection.updateOne({ _id }, { $set: { user_type: role } })
updateOne(id, role) ==
    IF id \in DOMAIN users THEN [users EXCEPT ![id].user_type = role] ELSE users

\* a destroy that leaves the record in the store
destroyNothing(s) == sessions

\* req.session.destroy()
destroy(s) == [sessions EXCEPT ![s] = NoUser]

(***************************************************************************)
(* Requests suspended at an await.                                         *)
(***************************************************************************)
Suspended(s, op, ident, email, password, id) ==
    [sid |-> s, op |-> op, ident |-> ident, email |-> email,
     password |-> password, id |-> id]

\* fewer than cap requests are suspended
Room(cap) == Cardinality(pending) < cap

MayAwait == Room(MaxInFlight)

\* what the client sees when a handler throws or a store call rejects inside
\* an async handler: the framework's 500, or no response at all
Unhandled(s, route, id) ==
    {Response(s, route, "", id, 500, "error", "Internal Server Error", NoData),
     Response(s, route, "", id, 0, "none", "", NoData)}

(***************************************************************************)
(* The session store: ttl, and touch at the end of a response.             *)
(***************************************************************************)
\* a ttl of one minute
TtlMinute == 60 * 1

\* ttl: 60 * 60, in seconds
Ttl == 60 * 60

\* the step of the clock
TickSeconds == Ttl \div 2

\* the store writes the record of session s: its ttl starts again
Written(s) == [age EXCEPT ![s] = 0]

\* a response to session s ends: the record it carries, if any, is touched
Touched(s) == IF sessions[s].set THEN Written(s) ELSE age

Init ==
    /\ variant \in {1, 2}
    /\ users \in {<<>>, <<[signupUser(FormA) EXCEPT !.user_type = "admin"]>>}
    /\ sessions = [s \in Sessions |-> NoUser]
    /\ pending = {}
    /\ resp = NoResp
    /\ registered = {<<users[i].email, users[i].password.of>> : i \in DOMAIN users}
    /\ loggedOut = [s \in Sessions |-> FALSE]
    /\ age = [s \in Sessions |-> 0]

(***************************************************************************)
(* Routes that only render.                                                *)
(***************************************************************************)
GetHome(s) ==
    /\ resp' = Render(s, "GET /", 200, "index", <<sessions[s]>>)
    /\ age' = Touched(s)
    /\ UNCHANGED <<variant, users, sessions, pending, registered, loggedOut>>

GetSignup(s) ==
    /\ resp' = Render(s, "GET /signup", 200, "signup", NoData)
    /\ age' = Touched(s)
    /\ UNCHANGED <<variant, users, sessions, pending, registered, loggedOut>>

GetLogin(s) ==
    /\ resp' = Render(s, "GET /login", 200, "login", NoData)
    /\ age' = Touched(s)
    /\ UNCHANGED <<variant, users, sessions, pending, registered, loggedOut>>

\* the paths no route of the running route set matches
UnmatchedPaths ==
    {"GET /nowhere"} \cup
    (IF AdminRoutes THEN {}
     ELSE {"GET /admin", "GET /promote/:id", "GET /demote/:id"})

NotFound(s, path) ==
    /\ path \in UnmatchedPaths
    /\ resp' = Render(s, path, 404, "404", NoData)
    /\ age' = Touched(s)
    /\ UNCHANGED <<variant, users, sessions, pending, registered, loggedOut>>

(***************************************************************************)
(* GET /members                                                            *)
(***************************************************************************)
GetMembers(s) ==
    /\ IF ~requireLogin(sessions[s])
       THEN resp' = Redirect(s, "GET /members", "", 0, LoginEntry)
       ELSE IF variant = 1
       THEN resp' = Render(s, "GET /members", 200, "members",
                           <<sessions[s].name, Images>>)
       ELSE \E i \in DOMAIN Images :
               resp' = Render(s, "GET /members", 200, "members",
                              <<sessions[s].name, Images[i]>>)
    /\ age' = Touched(s)
    /\ UNCHANGED <<variant, users, sessions, pending, registered, loggedOut>>

(***************************************************************************)
(* POST /signup: validation, hash and insertOne; then the session is       *)
(* saved and the redirect sent.                                            *)
(***************************************************************************)
SignupPostWithin(s, body, cap) ==
    /\ body \in SignupBodies
    /\ IF SignupValidate(body) # ""
       THEN /\ resp' = Send(s, "POST /signup", "", 200,
                            SignupValidate(body) \o SignupRetry)
            /\ age' = Touched(s)
            /\ UNCHANGED <<users, pending>>
       ELSE /\ Len(users) < MaxUsers
            /\ Room(cap)
            /\ users' = Append(users, signupUser(body))
            /\ pending' = pending \cup
                  {Suspended(s, "signup", signupSession(signupUser(body)),
                             body.email, body.password, 0)}
            /\ UNCHANGED <<resp, age>>
    /\ UNCHANGED <<variant, sessions, registered, loggedOut>>

SignupPost(s, body) == SignupPostWithin(s, body, MaxInFlight)

\* POST /signup with valid input whose insertOne rejects: the handler stops at
\* the await, before the session is assigned
SignupInsertFails(s, body) ==
    /\ body \in SignupBodies
    /\ SignupValidate(body) = ""
    /\ \E r \in Unhandled(s, "POST /signup", 0) :
          /\ resp' = r
          /\ age' = IF r.type = "none" THEN age ELSE Touched(s)
    /\ UNCHANGED <<variant, users, sessions, pending, registered, loggedOut>>

SignupFinish(p) ==
    /\ p \in pending
    /\ p.op = "signup"
    /\ sessions' = [sessions EXCEPT ![p.sid] = p.ident]
    /\ resp' = Redirect(p.sid, "POST /signup", p.email, 0, "/members")
    /\ pending' = pending \ {p}
    /\ registered' = registered \cup {<<p.email, p.password>>}
    /\ loggedOut' = [loggedOut EXCEPT ![p.sid] = FALSE]
    /\ age' = Written(p.sid)
    /\ UNCHANGED <<variant, users>>

(***************************************************************************)
(* POST /login: validation, findOne and compare; then the session is saved *)
(* and the redirect sent.                                                  *)
(***************************************************************************)
LoginPostWithin(s, body, cap) ==
    /\ body \in LoginBodies
    /\ IF LoginValidate(body) # ""
       THEN /\ resp' = Send(s, "POST /login", "", 200,
                            LoginValidate(body) \o LoginRetry)
            /\ age' = Touched(s)
            /\ UNCHANGED pending
       ELSE IF loginRefused(findOne(body.email), body.password)
       THEN /\ resp' = Send(s, "POST /login", body.email, 200,
                            loginFailure(findOne(body.email)))
            /\ age' = Touched(s)
            /\ UNCHANGED pending
       ELSE /\ Room(cap)
            /\ pending' = pending \cup
                  {Suspended(s, "login", loginSession(users[findOne(body.email)]),
                             body.email, body.password, 0)}
            /\ UNCHANGED <<resp, age>>
    /\ UNCHANGED <<variant, users, sessions, registered, loggedOut>>

LoginPost(s, body) == LoginPostWithin(s, body, MaxInFlight)

\* the last step of a login reading the record again for the snapshot
LoginFinishLive(p) ==
    /\ p \in pending
    /\ p.op = "login"
    /\ sessions' = [sessions EXCEPT
                       ![p.sid] = loginSession(users[findOne(p.email)])]
    /\ resp' = Redirect(p.sid, "POST /login", p.email, 0, "/members")
    /\ pending' = pending \ {p}
    /\ loggedOut' = [loggedOut EXCEPT ![p.sid] = FALSE]
    /\ age' = Written(p.sid)
    /\ UNCHANGED <<variant, users, registered>>

LoginFinish(p) ==
    /\ p \in pending
    /\ p.op = "login"
    /\ sessions' = [sessions EXCEPT ![p.sid] = p.ident]
    /\ resp' = Redirect(p.sid, "POST /login", p.email, 0, "/members")
    /\ pending' = pending \ {p}
    /\ loggedOut' = [loggedOut EXCEPT ![p.sid] = FALSE]
    /\ age' = Written(p.sid)
    /\ UNCHANGED <<variant, users, registered>>

(***************************************************************************)
(* GET /logout                                                             *)
(***************************************************************************)
Logout(s) ==
    /\ sessions' = destroy(s)
    /\ resp' = Redirect(s, "GET /logout", "", 0, "/")
    /\ loggedOut' = [loggedOut EXCEPT ![s] = TRUE]
    /\ age' = Written(s)
    /\ UNCHANGED <<variant, users, pending, registered>>

\* the session store drops a record whose ttl has run out; how much time has
\* passed is left open
Expire(s) ==
    /\ sessions[s].set
    /\ sessions' = [sessions EXCEPT ![s] = NoUser]
    /\ age' = Written(s)
    /\ UNCHANGED <<variant, users, pending, resp, registered, loggedOut>>

\* TickSeconds pass: a record that no write or touch renewed for Ttl seconds
\* no longer resolves
Tick ==
    /\ \E s \in Sessions : sessions[s].set
    /\ sessions' = [s \in Sessions |->
                      IF sessions[s].set /\ age[s] + TickSeconds >= Ttl
                      THEN NoUser ELSE sessions[s]]
    /\ age' = [s \in Sessions |->
                 IF sessions[s].set /\ age[s] + TickSeconds < Ttl
                 THEN age[s] + TickSeconds ELSE 0]
    /\ UNCHANGED <<variant, users, pending, resp, registered, loggedOut>>

(***************************************************************************)
(* GET /admin: the two gates; then find().toArray() and the view.          *)
(***************************************************************************)
GetAdminWithin(s, cap) ==
    /\ AdminRoutes
    /\ IF ~requireLogin(sessions[s])
       THEN /\ resp' = Redirect(s, "GET /admin", "", 0, LoginEntry)
            /\ age' = Touched(s)
            /\ UNCHANGED pending
       ELSE IF adminPageForbidden(sessions[s])
       THEN /\ resp' = Render(s, "GET /admin", 403, "403", NoData)
            /\ age' = Touched(s)
            /\ UNCHANGED pending
       ELSE /\ Room(cap)
            /\ pending' = pending \cup
                  {Suspended(s, "admin", sessions[s], "", "", 0)}
            /\ UNCHANGED <<resp, age>>
    /\ UNCHANGED <<variant, users, sessions, registered, loggedOut>>

GetAdmin(s) == GetAdminWithin(s, MaxInFlight)

AdminList(p) ==
    /\ p \in pending
    /\ p.op = "admin"
    /\ resp' = Render(p.sid, "GET /admin", 200, "admin", <<users>>)
    /\ pending' = pending \ {p}
    /\ age' = Touched(p.sid)
    /\ UNCHANGED <<variant, users, sessions, registered, loggedOut>>

(***************************************************************************)
(* GET /promote/:id and GET /demote/:id: the gate; then updateOne and the  *)
(* redirect.  new ObjectId(req.params.id) throws on a malformed id.        *)
(***************************************************************************)
\* a path segment that is no ObjectId, such as "abc"
MalformedId == 0

TargetIds == DOMAIN users \cup {NoSuchId, MalformedId}

RoleChange(s, id, op, route, cap) ==
    /\ AdminRoutes
    /\ id \in TargetIds
    /\ IF ~requireAdmin(sessions[s])
       THEN /\ resp' = Send(s, route, "", 403, ForbiddenText)
            /\ age' = Touched(s)
            /\ UNCHANGED pending
       ELSE IF id = MalformedId
       THEN /\ \E r \in Unhandled(s, route, id) :
                  /\ resp' = r
                  /\ age' = IF r.type = "none" THEN age ELSE Touched(s)
            /\ UNCHANGED pending
       ELSE /\ Room(cap)
            /\ pending' = pending \cup
                  {Suspended(s, op, sessions[s], "", "", id)}
            /\ UNCHANGED <<resp, age>>
    /\ UNCHANGED <<variant, users, sessions, registered, loggedOut>>

RoleUpdate(p, op, route, role) ==
    /\ p \in pending
    /\ p.op = op
    /\ users' = updateOne(p.id, role)
    /\ resp' = Redirect(p.sid, route, "", p.id, "/admin")
    /\ pending' = pending \ {p}
    /\ age' = Touched(p.sid)
    /\ UNCHANGED <<variant, sessions, registered, loggedOut>>

Promote(s, id) ==
    RoleChange(s, id, "promote", "GET /promote/:id", MaxInFlight)

PromoteUpdate(p) == RoleUpdate(p, "promote", "GET /promote/:id", PromoteRole)

Demote(s, id) ==
    RoleChange(s, id, "demote", "GET /demote/:id", MaxInFlight)

DemoteUpdate(p) == RoleUpdate(p, "demote", "GET /demote/:id", DemoteRole)

\* the requests, and the steps that complete them
Requests ==
    \/ \E s \in Sessions : GetHome(s)
    \/ \E s \in Sessions : GetSignup(s)
    \/ \E s \in Sessions : GetLogin(s)
    \/ \E s \in Sessions : \E path \in UnmatchedPaths : NotFound(s, path)
    \/ \E s \in Sessions : GetMembers(s)
    \/ \E s \in Sessions : \E body \in SignupBodies : SignupPost(s, body)
    \/ \E s \in Sessions : \E body \in SignupBodies : SignupInsertFails(s, body)
    \/ \E p \in pending : SignupFinish(p)
    \/ \E s \in Sessions : \E body \in LoginBodies : LoginPost(s, body)
    \/ \E p \in pending : LoginFinish(p)
    \/ \E s \in Sessions : Logout(s)
    \/ \E s \in Sessions : GetAdmin(s)
    \/ \E p \in pending : AdminList(p)
    \/ \E s \in Sessions : \E id \in TargetIds : Promote(s, id)
    \/ \E p \in pending : PromoteUpdate(p)
    \/ \E s \in Sessions : \E id \in TargetIds : Demote(s, id)
    \/ \E p \in pending : DemoteUpdate(p)

Next ==
    \/ Requests
    \/ \E s \in Sessions : Expire(s)

Spec == Init /\ [][Next]_vars

TypeOK ==
    /\ variant \in {1, 2}
    /\ Len(users) <= MaxUsers
    /\ Cardinality(pending) <= MaxInFlight
    /\ \A s \in Sessions : loggedOut[s] \in BOOLEAN
    /\ \A s \in Sessions : age[s] \in 0..Ttl

(***************************************************************************)
(* The same handlers with MaxRace requests in flight: a request may be     *)
(* suspended at its await while another one runs.                          *)
(***************************************************************************)
SignupPostRace(s, body) == SignupPostWithin(s, body, MaxRace)

LoginPostRace(s, body) == LoginPostWithin(s, body, MaxRace)

PromoteRace(s, id) ==
    RoleChange(s, id, "promote", "GET /promote/:id", MaxRace)

DemoteRace(s, id) ==
    RoleChange(s, id, "demote", "GET /demote/:id", MaxRace)

\* the forms and credentials that let a user in
RaceSignups == {FormA, FormB}

RaceLogins == {body \in LoginBodies : LoginValidate(body) = ""}

NextRace ==
    \/ \E s \in Sessions : \E body \in RaceSignups : SignupPostRace(s, body)
    \/ \E p \in pending : SignupFinish(p)
    \/ \E s \in Sessions : \E body \in RaceLogins : LoginPostRace(s, body)
    \/ \E p \in pending : LoginFinish(p)
    \/ \E s \in Sessions : \E id \in TargetIds : PromoteRace(s, id)
    \/ \E p \in pending : PromoteUpdate(p)
    \/ \E s \in Sessions : \E id \in TargetIds : DemoteRace(s, id)
    \/ \E p \in pending : DemoteUpdate(p)

\* the route set that has the role routes
InitRace == Init /\ AdminRoutes

SpecRace == InitRace /\ [][NextRace]_vars

(***************************************************************************)
(* The handlers that read the session, with a clock: between two steps of  *)
(* the server TickSeconds may pass.                                        *)
(***************************************************************************)
NextTtl ==
    \/ \E s \in Sessions : \E body \in RaceSignups : SignupPost(s, body)
    \/ \E p \in pending : SignupFinish(p)
    \/ \E s \in Sessions : \E body \in RaceLogins : LoginPost(s, body)
    \/ \E p \in pending : LoginFinish(p)
    \/ \E s \in Sessions : GetMembers(s)
    \/ \E s \in Sessions : GetAdmin(s)
    \/ \E p \in pending : AdminList(p)
    \/ \E s \in Sessions : \E id \in TargetIds : Promote(s, id)
    \/ \E p \in pending : PromoteUpdate(p)
    \/ Tick

SpecTtl == Init /\ [][NextTtl]_vars

(***************************************************************************)
(* Properties.                                                             *)
(***************************************************************************)
IsAdminSnapshot(user) == user.set /\ user.user_type = "admin"

\* this step sent a response of one of these routes
Answered(routes) == resp' # resp /\ resp'.route \in routes

\* this step suspended a request of one of these kinds
Started(ops) == \E p \in pending' \ pending : p.op \in ops

GateRoutes == {"GET /admin", "GET /promote/:id", "GET /demote/:id"}

GateOps == {"admin", "promote", "demote"}

\* a stored record carries this email and a digest this password verifies against
Known(name, email, password) ==
    \E i \in DOMAIN users :
        /\ users[i].name = name
        /\ users[i].email = email
        /\ compare(password, users[i].password)

\* C1: a GET /members request from a session that holds no identity is answered
\* with a 302 redirect and the members view is not rendered, in every reachable
\* state.
MembersNeedsIdentity ==
    [][\A s \in Sessions :
          (~sessions[s].set /\ resp'.route = "GET /members" /\ GetMembers(s))
              => /\ resp'.sid = s
                 /\ resp'.status = 302
                 /\ resp'.type = "redirect"
                 /\ resp'.body # "members"]_vars

MembersRedirected ==
    /\ resp.route = "GET /members"
    /\ resp.type = "redirect"
    /\ resp.sid \in Sessions
    /\ ~sessions[resp.sid].set
    /\ ~loggedOut[resp.sid]
    /\ users # <<>>

\* C2: a GET /admin request from a session whose snapshot is set and whose role
\* is not admin gets the 403 view with status 403, no read of the user list is
\* started for it, and a user list is only ever rendered for an admin snapshot.
AdminPageRefusesNonAdmin ==
    [][/\ \A s \in Sessions :
             (sessions[s].set /\ sessions[s].user_type # "admin" /\ GetAdmin(s))
                 => /\ resp' = Render(s, "GET /admin", 403, "403", NoData)
                    /\ pending' = pending
       /\ \A p \in pending :
             AdminList(p) => IsAdminSnapshot(p.ident)]_vars

AdminPageRefused ==
    /\ resp.route = "GET /admin"
    /\ resp.status = 403
    /\ resp.sid \in Sessions
    /\ sessions[resp.sid].set
    /\ sessions[resp.sid].user_type = "user"

\* C3: a GET /promote/:id or GET /demote/:id request from a session without an
\* admin snapshot is answered 403 at once, by a sent text and not a redirect,
\* and changes no record; the role of a record changes only in the update of a
\* promote or demote request whose session passed the admin gate.
RoleChangeNeedsAdmin ==
    [][/\ \A s \in Sessions : \A id \in TargetIds :
             (/\ ~IsAdminSnapshot(sessions[s])
              /\ Answered(GateRoutes) \/ Started(GateOps)
              /\ Promote(s, id) \/ Demote(s, id))
                 => /\ resp'.sid = s
                    /\ resp'.status = 403
                    /\ resp'.type = "send"
                    /\ users' = users
                    /\ pending' = pending
       /\ \A i \in DOMAIN users :
             users'[i].user_type # users[i].user_type
                 => \E p \in pending :
                       /\ p.id = i
                       /\ IsAdminSnapshot(p.ident)
                       /\ PromoteUpdate(p) \/ DemoteUpdate(p)]_vars

RoleChangeRefused ==
    /\ resp.route \in {"GET /promote/:id", "GET /demote/:id"}
    /\ resp.status = 403
    /\ resp.sid \in Sessions
    /\ sessions[resp.sid].set
    /\ sessions[resp.sid].user_type = "user"
    /\ \E i \in DOMAIN users : users[i].user_type = "user"

\* C4: the identity of a session is set or replaced only by the last step of a
\* POST /login or POST /signup that succeeded: the step answers 302 to /members,
\* and the credentials of the request verify against a stored record that
\* carries the name put in the session.
IdentityOnlyByLoginOrSignup ==
    [][\A s \in Sessions :
          (sessions'[s] # sessions[s] /\ sessions'[s].set)
              => \E p \in pending :
                    /\ p.sid = s
                    /\ sessions'[s] = p.ident
                    /\ SignupFinish(p) \/ LoginFinish(p)
                    /\ resp'.status = 302
                    /\ resp'.body = "/members"
                    /\ Known(p.ident.name, p.email, p.password)]_vars

LoggedInByLogin ==
    /\ resp.route = "POST /login"
    /\ resp.type = "redirect"
    /\ resp.sid \in Sessions
    /\ sessions[resp.sid].set
    /\ pending = {}

\* C5: a POST /signup with valid input inserts one record with role `user` and a
\* digest of the password, then puts the submitted name in the session and
\* answers 302 to /members.
SignupCreatesUserRole ==
    [][/\ \A s \in Sessions : \A body \in SignupBodies :
             (SignupPost(s, body) /\ SignupValidate(body) = "")
                 => /\ Len(users') = Len(users) + 1
                    /\ users'[Len(users')].name = body.name
                    /\ users'[Len(users')].email = body.email
                    /\ compare(body.password, users'[Len(users')].password)
                    /\ users'[Len(users')].user_type = "user"
                    /\ \E p \in pending' :
                          p.sid = s /\ p.op = "signup" /\ p.ident.name = body.name
       /\ \A p \in pending :
             SignupFinish(p)
                 => /\ sessions'[p.sid].set
                    /\ sessions'[p.sid].name = p.ident.name
                    /\ resp' = Redirect(p.sid, "POST /signup", p.email, 0,
                                        "/members")]_vars

\* C6: a well-formed POST /login that is refused gets status 200 and the one
\* invalid-combination text, whether no record carries the email or the
\* password does not verify, and no session changes.
LoginRefusalUniform ==
    [][\A s \in Sessions : \A body \in LoginBodies :
          (/\ pending' = pending
           /\ resp' # resp
           /\ resp'.route = "POST /login"
           /\ LoginValidate(body) = ""
           /\ LoginPost(s, body))
              => /\ resp'.sid = s
                 /\ resp'.status = 200
                 /\ resp'.type = "send"
                 /\ resp'.body = InvalidCombination
                 /\ sessions' = sessions]_vars

\* the only record is one that was there from the start, and a login with its
\* email was refused: the password did not verify
LoginRefusedForPassword ==
    /\ resp.route = "POST /login"
    /\ resp.body = InvalidCombination
    /\ Len(users) = 1
    /\ users[1].user_type = "admin"
    /\ users[1].email = resp.email
    /\ pending = {}

\* C7: after a signup with an email and a password succeeded, a POST /login with
\* the same email and password succeeds, and one with that email and a password
\* no signup used with it gets the 200 invalid-combination text.
LoginAfterSignup ==
    [][\A s \in Sessions : \A body \in LoginBodies :
          LoginPost(s, body)
              => /\ <<body.email, body.password>> \in registered
                    => \E p \in pending' \ pending :
                          p.sid = s /\ p.op = "login"
                 /\ (/\ LoginValidate(body) = ""
                     /\ <<body.email, body.password>> \notin registered
                     /\ \E r \in registered : r[1] = body.email)
                    => /\ resp'.status = 200
                       /\ resp'.body = InvalidCombination
                       /\ pending' = pending]_vars

\* C8: whether a request to /admin, /promote/:id or /demote/:id passes is decided
\* by the role in the session's snapshot alone: it passes exactly when the
\* snapshot is an admin's, whatever the records of the collection say.
SnapshotDecides ==
    [][\A s \in Sessions :
          /\ (/\ sessions[s].set
              /\ Answered(GateRoutes) \/ Started(GateOps)
              /\ GetAdmin(s))
                => IF sessions[s].user_type = "admin"
                   THEN resp' = resp /\ pending' # pending
                   ELSE resp'.status = 403 /\ pending' = pending
          /\ \A id \in TargetIds :
                (/\ Answered(GateRoutes) \/ Started(GateOps)
                 /\ Promote(s, id) \/ Demote(s, id))
                    => IF IsAdminSnapshot(sessions[s])
                       THEN IF id = MalformedId
                            THEN resp'.status # 403 /\ pending' = pending
                            ELSE resp' = resp /\ pending' # pending
                       ELSE resp'.status = 403 /\ pending' = pending]_vars

\* a demoted user's session still passes the gates
StaleAdminPasses ==
    /\ Cardinality(pending) = 1
    /\ \E p \in pending :
          /\ p.op \in GateOps
          /\ sessions[p.sid] = p.ident
          /\ \E i \in DOMAIN users : users[i].name = p.ident.name
          /\ \A i \in DOMAIN users :
                users[i].name = p.ident.name => users[i].user_type = "user"

\* C9: GET /logout answers 302 to / and leaves the session without identity,
\* also when it had none; from then on GET /members on that session is
\* redirected, until a login or signup on it succeeds.
LogoutEndsSession ==
    [][\A s \in Sessions :
          /\ Logout(s)
                => /\ resp' = Redirect(s, "GET /logout", "", 0, "/")
                   /\ ~sessions'[s].set
          /\ loggedOut'[s] => ~sessions'[s].set
          /\ (loggedOut[s] /\ resp'.route = "GET /members" /\ GetMembers(s))
                => resp'.sid = s /\ resp'.type = "redirect"]_vars

\* a session that signed up and logged out asked for the members page
MembersAfterLogout ==
    /\ resp.route = "GET /members"
    /\ resp.type = "redirect"
    /\ resp.sid \in Sessions
    /\ loggedOut[resp.sid]
    /\ registered # {}

\* C10: the update of a promote request on an existing id leaves that record
\* admin, the update of a demote request leaves it `user`, whatever the role
\* was; the same update again changes nothing, no other record changes, and a
\* role changes in no other step.
LastRoleChangeWins ==
    [][/\ \A p \in pending :
             /\ (PromoteUpdate(p) /\ p.id \in DOMAIN users)
                   => /\ users' = [users EXCEPT ![p.id].user_type = "admin"]
                      /\ users[p.id].user_type = "admin" => users' = users
             /\ (DemoteUpdate(p) /\ p.id \in DOMAIN users)
                   => /\ users' = [users EXCEPT ![p.id].user_type = "user"]
                      /\ users[p.id].user_type = "user" => users' = users
       /\ \A i \in DOMAIN users :
             users'[i].user_type # users[i].user_type
                 => \E p \in pending :
                       p.id = i /\ (PromoteUpdate(p) \/ DemoteUpdate(p))]_vars

\* an admin was demoted while a session still holds the admin snapshot
DemotedLast ==
    /\ resp.route = "GET /demote/:id"
    /\ resp.type = "redirect"
    /\ resp.id \in DOMAIN users
    /\ users[resp.id].user_type = "user"
    /\ \E s \in Sessions :
          IsAdminSnapshot(sessions[s]) /\ sessions[s].name = users[resp.id].name

\* C11: a GET /members or GET /admin request from a session without identity is
\* answered with status 302 and a redirect to the entry route of the running
\* route set (/login in the first, / in the second), never with 403 or another
\* error status, and nothing is started for it.
AnonymousRedirectedToLogin ==
    [][(Answered({"GET /members", "GET /admin"}) \/ Started({"admin"}))
          => \A s \in Sessions :
          (/\ ~sessions[s].set
           /\ GetMembers(s) \/ GetAdmin(s))
              => /\ resp'.sid = s
                 /\ resp'.status = 302
                 /\ resp'.type = "redirect"
                 /\ resp'.body = (IF variant = 1 THEN "/login" ELSE "/")
                 /\ pending' = pending]_vars

\* an anonymous GET /admin was redirected to the login page
AnonymousAdminRedirected ==
    /\ resp.route = "GET /admin"
    /\ resp.status = 302
    /\ resp.body = "/login"
    /\ resp.sid \in Sessions
    /\ ~sessions[resp.sid].set

\* one of the fields is missing, empty or, for the email, not an address
ShapeFails(fields, email) ==
    \/ \E i \in DOMAIN fields : fields[i] \in {Undefined, ""}
    \/ email \notin {"a@x.com", "b@x.com"}

\* C12: a POST /signup or POST /login whose input fails shape validation is
\* answered with status 200 and a sent text made of a message and the retry
\* link of its form; no record is created, nothing is started and no session
\* changes.
ValidationErrorInline ==
    [][\A s \in Sessions :
          (resp'.sid = s \/ \E p \in pending' \ pending : p.sid = s)
          => /\ (Answered({"POST /signup"}) \/ Started({"signup"}))
                => \A body \in SignupBodies :
                      (/\ ShapeFails(<<body.name, body.email, body.password>>,
                                     body.email)
                       /\ SignupPost(s, body))
                          => /\ resp'.status = 200
                             /\ resp'.type = "send"
                             /\ resp'.body = SignupValidate(body) \o SignupRetry
                             /\ users' = users
                             /\ pending' = pending
                             /\ sessions' = sessions
             /\ (Answered({"POST /login"}) \/ Started({"login"}))
                => \A body \in LoginBodies :
                      (/\ ShapeFails(<<body.email, body.password>>, body.email)
                       /\ LoginPost(s, body))
                          => /\ resp'.status = 200
                             /\ resp'.type = "send"
                             /\ resp'.body = LoginValidate(body) \o LoginRetry
                             /\ resp'.body # InvalidCombination
                             /\ users' = users
                             /\ pending' = pending
                             /\ sessions' = sessions]_vars

\* a logged-in session posted a signup form with a malformed email
SignupRejectedInline ==
    /\ resp.route = "POST /signup"
    /\ resp.status = 200
    /\ resp.body = "\"email\" must be a valid email" \o SignupRetry
    /\ resp.sid \in Sessions
    /\ sessions[resp.sid].set

\* C13: a GET /promote/:id or GET /demote/:id request from a session with an
\* admin snapshot goes on to its update for every id of the path, the update
\* answers with a redirect to /admin, and for an id that denotes no record the
\* update leaves the records as they were.
RoleChangeAlwaysRedirects ==
    [][/\ (Answered(GateRoutes) \/ Started(GateOps))
          => \A s \in Sessions : \A id \in TargetIds :
             (/\ IsAdminSnapshot(sessions[s])
              /\ Promote(s, id) \/ Demote(s, id))
                 => /\ resp' = resp
                    /\ \E p \in pending' \ pending : p.sid = s /\ p.id = id
       /\ \A p \in pending :
             (PromoteUpdate(p) \/ DemoteUpdate(p))
                 => /\ resp'.status = 302
                    /\ resp'.type = "redirect"
                    /\ resp'.body = "/admin"
                    /\ p.id \notin DOMAIN users => users' = users]_vars

\* C14: a record, once stored, stays at its place with its name, its email and
\* its digest; the only field that changes is the role, and only in the update
\* of a promote or demote request on its id.
RecordsKeptButRole ==
    [][/\ Len(users') >= Len(users)
       /\ \A i \in DOMAIN users :
             /\ users'[i].name = users[i].name
             /\ users'[i].email = users[i].email
             /\ users'[i].password = users[i].password
             /\ users'[i] # users[i]
                   => \E p \in pending :
                         /\ p.id = i
                         /\ PromoteUpdate(p) \/ DemoteUpdate(p)]_vars

\* a record made by a signup was promoted and still carries what it signed up with
PromotedKeepsCredentials ==
    /\ resp.route = "GET /promote/:id"
    /\ resp.type = "redirect"
    /\ resp.id \in DOMAIN users
    /\ resp.id > 1
    /\ users[resp.id].user_type = "admin"
    /\ users[resp.id].name = "B"
    /\ users[resp.id].email = "a@x.com"
    /\ compare("q", users[resp.id].password)

\* no record, no session and no request in flight carries the role admin
NoAdmin ==
    /\ \A i \in DOMAIN users : users[i].user_type # "admin"
    /\ \A s \in Sessions : sessions[s].user_type # "admin"
    /\ \A p \in pending :
          p.ident.user_type # "admin" /\ p.op \notin {"promote", "admin"}

\* C17: from a state without an admin record and without an admin snapshot,
\* no step leads to a state that has one.
NoEscalation == [][NoAdmin => NoAdmin']_vars

\* without any admin, a logged-in user asked for a promotion and was refused
PromoteRefusedWithoutAdmin ==
    /\ NoAdmin
    /\ resp.route = "GET /promote/:id"
    /\ resp.status = 403
    /\ resp.sid \in Sessions
    /\ sessions[resp.sid].set
    /\ sessions[resp.sid].user_type = "user"
    /\ Len(users) = MaxUsers

\* the login with this body fails: its shape, an unknown email, or a password
\* that is not the one of the record found for the email
LoginFails(body) ==
    \/ ShapeFails(<<body.email, body.password>>, body.email)
    \/ \A i \in DOMAIN users : users[i].email # body.email
    \/ \E i \in DOMAIN users :
          /\ users[i].email = body.email
          /\ \A j \in 1..(i - 1) : users[j].email # body.email
          /\ users[i].password.of # body.password

\* C18: a POST /login that fails leaves every session as it was and starts no
\* session write; the snapshot of a session that holds one is replaced only by
\* the last step of a login or signup that succeeded on it, name and role in
\* one assignment.
FailedLoginKeepsSnapshot ==
    [][/\ (Answered({"POST /login"}) \/ Started({"login"}))
          => \A s \in Sessions : \A body \in LoginBodies :
             (/\ LoginFails(body)
              /\ LoginPost(s, body))
                 => /\ sessions' = sessions
                    /\ pending' = pending
                    /\ resp'.sid = s
                    /\ resp'.status = 200
       /\ \A s \in Sessions :
             (sessions[s].set /\ sessions'[s].set /\ sessions'[s] # sessions[s])
                 => \E p \in pending :
                       /\ p.sid = s
                       /\ LoginFinish(p) \/ SignupFinish(p)
                       /\ sessions'[s].name = p.ident.name
                       /\ sessions'[s].user_type = p.ident.user_type]_vars

\* a logged-in session posted a login that was refused and is still logged in
RefusedWhileLoggedIn ==
    /\ resp.route = "POST /login"
    /\ resp.status = 200
    /\ resp.body = InvalidCombination
    /\ resp.sid \in Sessions
    /\ sessions[resp.sid].set

\* C19: the name in the snapshot of a session is the name of a stored record;
\* a signup whose insert fails leaves records and sessions as they were, a
\* signup writes the session only after its record is stored, and a login
\* writes the name of a record.
SnapshotNameIsStored ==
    [][/\ \A s \in Sessions :
             sessions'[s].set
                 => \E i \in DOMAIN users' : users'[i].name = sessions'[s].name
       /\ \A p \in pending :
             (SignupFinish(p) \/ LoginFinish(p))
                 => \E i \in DOMAIN users :
                       /\ users[i].name = sessions'[p.sid].name
                       /\ users[i].email = p.email
       /\ resp'.route = "POST /signup"
          => \A s \in Sessions : \A body \in SignupBodies :
                SignupInsertFails(s, body)
                    => users' = users /\ sessions' = sessions]_vars

\* the insert of a signup failed and the session holds no identity
InsertFailedStaysAnonymous ==
    /\ resp.route = "POST /signup"
    /\ resp.status = 500
    /\ resp.sid \in Sessions
    /\ ~sessions[resp.sid].set
    /\ users # <<>>

\* C15: a session record that no write or touch renewed stops resolving when
\* 3600 seconds have passed since the last one, not sooner and not later; a
\* request of a session that resolves to no identity is answered 302 on the
\* gated pages and 403 on the role routes, never with an error.
SessionExpiresAfterTtl ==
    [][/\ \A s \in Sessions :
             /\ (Tick /\ sessions[s].set)
                   => (sessions'[s].set <=> age[s] + TickSeconds < 3600)
             /\ (sessions[s].set /\ ~sessions'[s].set)
                   => Tick /\ age[s] + TickSeconds = 3600
             /\ sessions'[s].set => age'[s] < 3600
       /\ resp' # resp
          => \A s \in Sessions :
                (/\ ~sessions[s].set
                 /\ \/ GetMembers(s)
                    \/ GetAdmin(s)
                    \/ \E id \in TargetIds : Promote(s, id))
                    => /\ resp'.sid = s
                       /\ resp'.status \in {302, 403}
                       /\ pending' = pending]_vars

\* the only record was made by a signup, whose session has run out since: no
\* session resolves, and a request for the members page was redirected
RedirectedAfterExpiry ==
    /\ resp.route = "GET /members"
    /\ resp.status = 302
    /\ pending = {}
    /\ Len(users) = 1
    /\ users[1].user_type = "user"
    /\ \A s \in Sessions : ~sessions[s].set

LoginSnapshotFromLookup ==
    [][/\ Started({"login"})
          => \A s \in Sessions : \A body \in LoginBodies :
                LoginPostRace(s, body)
                    => \E p \in pending' \ pending :
                          /\ p.sid = s
                          /\ p.email = body.email
                          /\ \E i \in DOMAIN users :
                                /\ users[i].email = body.email
                                /\ \A j \in 1..(i - 1) : users[j].email # body.email
                                /\ p.ident.name = users[i].name
                                /\ p.ident.user_type = users[i].user_type
       /\ \A p \in pending :
             LoginFinish(p) => sessions'[p.sid] = p.ident]_vars

\* the last response is the redirect of a login whose session holds the role
\* admin, and the record its lookup found says `user`
SnapshotStaleAtLogin ==
    /\ resp.route = "POST /login"
    /\ resp.type = "redirect"
    /\ resp.sid \in Sessions
    /\ sessions[resp.sid].user_type = "admin"
    /\ \E i \in DOMAIN users :
          /\ users[i].email = resp.email
          /\ \A j \in 1..(i - 1) : users[j].email # resp.email
          /\ users[i].name = sessions[resp.sid].name
          /\ users[i].user_type = "user"
====
